---- MODULE Spec2Model ----
(***************************************************************************)
(* Model of MeteoParser (src/db/db.py): the fixed-width NOAA ISD record    *)
(* parser (parse_file), the batch parse (parse_files) and the station      *)
(* history load (parse_meteo_stations).                                    *)
(*                                                                         *)
(* Text is a sequence of one-character strings.  Regular expressions are   *)
(* modelled by what Python's re module computes on such a sequence.        *)
(***************************************************************************)
EXTENDS Integers, Sequences, FiniteSets, TLC

\* ------------------------------------------------------------------------
\* Bounds of the model
\* ------------------------------------------------------------------------
MaxLines == 2
MaxFiles == 2
MaxRows == 2

\* ------------------------------------------------------------------------
\* Characters and small helpers
\* ------------------------------------------------------------------------
Digit == {"0", "1", "2", "3", "4", "5", "6", "7", "8", "9"}

DigitVal ==
  ("0" :> 0) @@ ("1" :> 1) @@ ("2" :> 2) @@ ("3" :> 3) @@ ("4" :> 4) @@
  ("5" :> 5) @@ ("6" :> 6) @@ ("7" :> 7) @@ ("8" :> 8) @@ ("9" :> 9)

NL == "\n"

\* Python None where a text is expected (no text has a four-letter character)
None == <<"None">>

Rep(c, n) == [k \in 1..n |-> c]

\* s[i..i+n-1] with Python slice clipping, i is 1-based
Slice(s, i, n) == SubSeq(s, i, IF i + n - 1 > Len(s) THEN Len(s) ELSE i + n - 1)

AllDigits(s) == \A k \in 1..Len(s) : s[k] \in Digit

\* regex '.' : any character except a newline
NoNewline(s) == \A k \in 1..Len(s) : s[k] # NL

RECURSIVE ToInt(_)
ToInt(s) == IF Len(s) = 0 THEN 0
            ELSE 10 * ToInt(SubSeq(s, 1, Len(s) - 1)) + DigitVal[s[Len(s)]]

\* ------------------------------------------------------------------------
\* parse_re_mandatory (db.py 55-68): twelve contiguous fixed-width fields
\* ------------------------------------------------------------------------
parse_re_mandatory ==
  << [name |-> "len",      cls |-> "digits", w |-> 4],
     [name |-> "usaf_id",  cls |-> "any",    w |-> 6],
     [name |-> "wban_id",  cls |-> "digits", w |-> 5],
     [name |-> "date",     cls |-> "digits", w |-> 8],
     [name |-> "time",     cls |-> "digits", w |-> 4],
     [name |-> "flag",     cls |-> "any",    w |-> 1],
     [name |-> "lat",      cls |-> "signed", w |-> 6],
     [name |-> "lon",      cls |-> "signed", w |-> 7],
     [name |-> "code",     cls |-> "any",    w |-> 5],
     [name |-> "elev",     cls |-> "signed", w |-> 5],
     [name |-> "skip",     cls |-> "any",    w |-> 49],
     [name |-> "air_pres", cls |-> "digits", w |-> 5] >>

RECURSIVE FieldStart(_)
\* 1-based position of the first character of field k
FieldStart(k) == IF k = 1 THEN 1
                 ELSE FieldStart(k - 1) + parse_re_mandatory[k - 1].w

FieldIndex(name) ==
  CHOOSE k \in 1..Len(parse_re_mandatory) : parse_re_mandatory[k].name = name

\* does text t (already of the field's width) belong to the character class
ClassOK(cls, t) ==
  CASE cls = "digits" -> AllDigits(t)
    [] cls = "any"    -> NoNewline(t)
    [] cls = "signed" -> /\ Len(t) >= 1
                         /\ t[1] \in {"+", "-"}
                         /\ AllDigits(SubSeq(t, 2, Len(t)))

FieldOK(line, k) ==
  LET f == parse_re_mandatory[k]
      t == Slice(line, FieldStart(k), f.w)
  IN  Len(t) = f.w /\ ClassOK(f.cls, t)

\* the pattern without its last field
MatchesButPressure(line) ==
  \A k \in 1..(Len(parse_re_mandatory) - 1) : FieldOK(line, k)

\* parse_re_mandatory.match(line) is not None
MandatoryMatches(line) == \A k \in 1..Len(parse_re_mandatory) : FieldOK(line, k)

\* mandatory_data_match.group(name)
Group(line, name) ==
  LET k == FieldIndex(name)
  IN  Slice(line, FieldStart(k), parse_re_mandatory[k].w)

\* ------------------------------------------------------------------------
\* parse_re_add (db.py 70-74): (?:ADD(.*)?MA1)(?:.{6})(?P<air_pres>[0-9]{5})
\* ------------------------------------------------------------------------
ADD == <<"A", "D", "D">>
MA1 == <<"M", "A", "1">>
AddSkip == 6
AddPresW == 5

\* "MA1" at j, then 6 characters, then 5 digits
TailAt(line, j) ==
  /\ Slice(line, j, 3) = MA1
  /\ Len(Slice(line, j + 3, AddSkip)) = AddSkip
  /\ NoNewline(Slice(line, j + 3, AddSkip))
  /\ Len(Slice(line, j + 3 + AddSkip, AddPresW)) = AddPresW
  /\ AllDigits(Slice(line, j + 3 + AddSkip, AddPresW))

\* positions of MA1 at which the regex can complete when it starts at i:
\* "ADD" at i, (.*)? spans i+3 .. j-1 without a newline
AddEnds(line, i) ==
  IF Slice(line, i, 3) # ADD THEN {}
  ELSE { j \in (i + 3)..Len(line) :
           NoNewline(SubSeq(line, i + 3, j - 1)) /\ TailAt(line, j) }

\* a non-greedy (.*?) would try the shortest span first
LazyPick(S) == CHOOSE j \in S : \A k \in S : j <= k

\* quantifier of (.*): greedy, the regex engine tries the longest span first
StarPick(S) == CHOOSE j \in S : \A k \in S : k <= j

\* parse_re_add.search(line): leftmost start, then the greedy choice of (.*);
\* the value is group('air_pres') or None
parse_re_add_search(line) ==
  LET starts == { i \in 1..Len(line) : AddEnds(line, i) # {} }
  IN  IF starts = {} THEN None
      ELSE LET i == CHOOSE a \in starts : \A b \in starts : a <= b
               j == StarPick(AddEnds(line, i))
           IN  Slice(line, j + 3 + AddSkip, AddPresW)

\* ------------------------------------------------------------------------
\* datetime.datetime.strptime (db.py 125, 154) with the formats of
\* MeteoParser.__init__ (db.py 51-52)
\* ------------------------------------------------------------------------
datetime_format == <<"Y", "m", "d", "H", "M">>
date_format == <<"Y", "m", "d">>

InRange(t, lo, hi) == AllDigits(t) /\ ToInt(t) >= lo /\ ToInt(t) <= hi

\* The alternatives of one directive that match at position i, in the order
\* the regex engine tries them; each is the text width and the value read.
\*   %Y \d\d\d\d   %m 1[0-2]|0[1-9]|[1-9]   %d 3[0-1]|[1-2]\d|0[1-9]|[1-9]| [1-9]
\*   %H 2[0-3]|[0-1]\d|\d   %M [0-5]\d|\d
Alternatives(dir, s, i) ==
  LET one  == Slice(s, i, 1)
      two  == Slice(s, i, 2)
      four == Slice(s, i, 4)
      has1 == Len(one) = 1
      has2 == Len(two) = 2
      alt(t) == << [w |-> Len(t), val |-> ToInt(t)] >>
      when(c, a) == IF c THEN a ELSE << >>
  IN  CASE dir = "Y" -> when(Len(four) = 4 /\ AllDigits(four), alt(four))
        [] dir = "m" -> when(has2 /\ InRange(two, 1, 12), alt(two))
                        \o when(has1 /\ InRange(one, 1, 9), alt(one))
        [] dir = "d" -> when(has2 /\ InRange(two, 1, 31), alt(two))
                        \o when(has1 /\ InRange(one, 1, 9), alt(one))
                        \o when(has2 /\ two[1] = " " /\ InRange(<<two[2]>>, 1, 9),
                                << [w |-> 2, val |-> IF has2 /\ two[2] \in Digit
                                                     THEN DigitVal[two[2]] ELSE 0] >>)
        [] dir = "H" -> when(has2 /\ InRange(two, 0, 23), alt(two))
                        \o when(has1 /\ AllDigits(one), alt(one))
        [] dir = "M" -> when(has2 /\ InRange(two, 0, 59), alt(two))
                        \o when(has1 /\ AllDigits(one), alt(one))

RECURSIVE FormatMatch(_, _, _, _), FirstAlternative(_, _, _, _, _, _)
\* format_regex.match(data_string): the first path of the backtracking search
\* that matches every directive from k on, starting at i, if there is one
FormatMatch(s, i, fmt, k) ==
  IF k > Len(fmt) THEN [ok |-> TRUE, vals |-> << >>, end |-> i]
  ELSE FirstAlternative(s, i, fmt, k, Alternatives(fmt[k], s, i), 1)

FirstAlternative(s, i, fmt, k, alts, n) ==
  IF n > Len(alts) THEN [ok |-> FALSE]
  ELSE LET rest == FormatMatch(s, i + alts[n].w, fmt, k + 1)
       IN  IF ~rest.ok
           THEN FirstAlternative(s, i, fmt, k, alts, n + 1)
           ELSE [ok |-> TRUE, vals |-> <<alts[n].val>> \o rest.vals, end |-> rest.end]

IsLeap(y) == (y % 4 = 0) /\ ((y % 100 # 0) \/ (y % 400 = 0))

DaysInMonth(y, m) ==
  CASE m \in {1, 3, 5, 7, 8, 10, 12} -> 31
    [] m \in {4, 6, 9, 11}           -> 30
    [] m = 2                         -> IF IsLeap(y) THEN 29 ELSE 28

MINYEAR == 1

\* the value of strptime(s, fmt): a datetime <<year, month, day, hour, minute>>
\* or the exception raised
strptime(s, fmt) ==
  IF s = None THEN [ok |-> FALSE, exc |-> "TypeError"]
  ELSE LET found == FormatMatch(s, 1, fmt, 1)
       IN  IF ~found.ok THEN [ok |-> FALSE, exc |-> "ValueError"]
           ELSE IF found.end # Len(s) + 1                 \* unconverted data remains
           THEN [ok |-> FALSE, exc |-> "ValueError"]
           ELSE LET v  == found.vals
                    hh == IF Len(fmt) >= 4 THEN v[4] ELSE 0
                    mm == IF Len(fmt) >= 5 THEN v[5] ELSE 0
                IN  IF v[1] < MINYEAR \/ v[3] > DaysInMonth(v[1], v[2])
                    THEN [ok |-> FALSE, exc |-> "ValueError"]
                    ELSE [ok |-> TRUE, dt |-> <<v[1], v[2], v[3], hh, mm>>]

RECURSIVE LexLess(_, _), LexLessEq(_, _)
LexLess(a, b) ==
  IF Len(a) = 0 \/ Len(b) = 0 THEN Len(a) < Len(b)
  ELSE IF a[1] # b[1] THEN a[1] < b[1]
  ELSE LexLess(Tail(a), Tail(b))

LexLessEq(a, b) ==
  IF Len(a) = 0 \/ Len(b) = 0 THEN Len(a) <= Len(b)
  ELSE IF a[1] # b[1] THEN a[1] < b[1]
  ELSE LexLessEq(Tail(a), Tail(b))

\* datetime.__le__
DtLessEq(a, b) == LexLessEq(a, b)

\* datetime.__lt__
DtLess(a, b) == LexLess(a, b)

\* ------------------------------------------------------------------------
\* Records built by the parser
\* ------------------------------------------------------------------------
\* MeteoStation.__init__(id, longitude, latitude, elevation)
MeteoStation(id, longitude, latitude, elevation) ==
  [id |-> id, longitude |-> longitude, latitude |-> latitude,
   elevation |-> elevation]

\* MeteoReading.__init__(station, date_time, pressure)
MeteoReading(station, date_time, pressure) ==
  [station |-> station, date_time |-> date_time, pressure |-> pressure]

MISSING == <<"9", "9", "9", "9", "9">>

\* the override without the test of db.py 121
PressureAlwaysOverridden(line) ==
  LET pressure     == Group(line, "air_pres")
      new_pressure == parse_re_add_search(line)
  IN  IF new_pressure # None THEN new_pressure ELSE pressure

\* db.py 116-122: the pressure of the reading of a matching line
PressureOf(line) ==
  LET pressure     == Group(line, "air_pres")
      new_pressure == parse_re_add_search(line)
  IN  IF new_pressure # None /\ new_pressure # MISSING
      THEN new_pressure ELSE pressure

\* db.py 110-127: the outcome of the loop body on a matching line
LineOutcome(line) ==
  LET dt == strptime(Group(line, "date") \o Group(line, "time"), datetime_format)
  IN  IF ~dt.ok THEN dt
      ELSE [ok |-> TRUE,
            reading |-> MeteoReading(
                          MeteoStation(Group(line, "usaf_id"), Group(line, "lon"),
                                       Group(line, "lat"), Group(line, "elev")),
                          dt.dt, PressureOf(line))]

\* ------------------------------------------------------------------------
\* Input texts
\* ------------------------------------------------------------------------
U1 == <<"1", "2", "3", "4", "5", "6">>
U2 == <<"7", "2", "5", "3", "0", "0">>
P10150 == <<"1", "0", "1", "5", "0">>
P10132 == <<"1", "0", "1", "3", "2">>
P10200 == <<"1", "0", "2", "0", "0">>
D20161201 == <<"2", "0", "1", "6", "1", "2", "0", "1">>
D20161130 == <<"2", "0", "1", "6", "1", "1", "3", "0">>
D20161202 == <<"2", "0", "1", "6", "1", "2", "0", "2">>
D20161301 == <<"2", "0", "1", "6", "1", "3", "0", "1">>
D20170229 == <<"2", "0", "1", "7", "0", "2", "2", "9">>
D2016121  == <<"2", "0", "1", "6", "1", "2", "1">>
T1200 == <<"1", "2", "0", "0">>
LAT == <<"+", "4", "0", "0", "0", "0">>
LON == <<"-", "0", "7", "5", "0", "0", "0">>
ELEV == <<"+", "0", "0", "1", "0">>

\* one ISD record: the mandatory section followed by a tail and a newline
Record(len, usaf, date, time, lat, pres, tail) ==
  len \o usaf \o Rep("9", 5) \o date \o time \o <<"4">> \o lat \o LON
      \o Rep("F", 5) \o ELEV \o Rep("N", 49) \o pres \o tail \o <<NL>>

Good(usaf, date, time, pres, tail) ==
  Record(<<"0", "1", "3", "4">>, usaf, date, time, LAT, pres, tail)

Supp(pres) == MA1 \o Rep("x", AddSkip) \o pres

Tails ==
  { << >>,
    ADD \o Supp(P10132),
    ADD \o Supp(MISSING),
    ADD \o <<"G", "F", "1">> \o Supp(P10132) \o <<"R", "E", "M">> \o Supp(P10200),
    ADD \o Supp(P10132) \o Supp(MISSING),
    Supp(P10132),
    ADD \o Supp(<<"1", "0", "1", "3", "x">>) }

Lines ==
  { Good(U1, D20161201, T1200, P10150, tail) : tail \in Tails }
  \cup { Good(U1, D20161201, T1200, MISSING, tail) :
           tail \in { << >>, ADD \o Supp(P10132), ADD \o Supp(MISSING) } }
  \cup { Good(U2, D20161202, T1200, P10150, << >>) }
  \cup { Good(U1, D20161301, T1200, P10150, << >>),
         Good(U1, D20170229, T1200, P10150, ADD \o Supp(P10132)) }
  \cup { <<NL>>,
         SubSeq(Good(U1, D20161201, T1200, P10150, << >>), 1, 104) \o <<NL>>,
         Record(<<"0", "1", "3", "4">>, U1, D20161201, T1200,
                <<"4", "0", "0", "0", "0", "0">>, P10150, << >>),
         <<" ">> \o Good(U1, D20161201, T1200, P10150, << >>) }

RECURSIVE SeqsUpTo(_, _)
\* all sequences over S of length at most n
SeqsUpTo(S, n) ==
  IF n = 0 THEN { << >> }
  ELSE LET shorter == SeqsUpTo(S, n - 1)
       IN  shorter \cup { Append(q, x) : q \in { r \in shorter : Len(r) = n - 1 }, x \in S }

\* errno of open(): "" when the file opens
OSErrors == {"FileNotFoundError", "PermissionError"}

Names == {"a", "b"}

Unreadable == [err |-> "FileNotFoundError", lines |-> << >>]

Files ==
  { Unreadable, [err |-> "PermissionError", lines |-> << >>] }
  \cup { [err |-> "", lines |-> ls] : ls \in SeqsUpTo(Lines, MaxLines) }

BatchLines ==
  { Good(U1, D20161201, T1200, P10150, << >>),
    Good(U1, D20161202, T1200, P10132, << >>),
    Good(U1, D20161301, T1200, P10150, << >>),
    <<NL>> }

BatchFiles ==
  { Unreadable } \cup { [err |-> "", lines |-> ls] : ls \in SeqsUpTo(BatchLines, 1) }

\* rows of the station history file as csv.DictReader yields them
Row(usaf, lat, lon, elev, end) ==
  [USAF |-> usaf, LAT |-> lat, LON |-> lon, ELEV |-> elev, END |-> end]

CsvLat == <<"+", "4", "1", ".", "9">>
CsvLon == <<"-", "0", "8", "7", ".", "9">>
CsvElev == <<"+", "0", "1", "8", "6">>

Rows ==
  { Row(U2, CsvLat, CsvLon, CsvElev, end) :
      end \in {D20161130, D20161201, D20161202, D2016121, D20161301, << >>, None} }
  \cup { Row(usaf, lat, lon, elev, end) :
           usaf \in {U1, << >>}, lat \in {CsvLat, << >>}, lon \in {CsvLon},
           elev \in {CsvElev}, end \in {D20161201, D20161130} }
  \cup { Row(U1, CsvLat, lon, elev, D20161202) :
           lon \in {CsvLon, << >>}, elev \in {CsvElev, << >>} }

CsvFiles ==
  { [err |-> "FileNotFoundError", rows |-> << >>] }
  \cup { [err |-> "", rows |-> rs] : rs \in SeqsUpTo(Rows, MaxRows) }

Cutoffs == { <<2016, 12, 1, 0, 0>>, <<2016, 12, 1, 12, 0>> }

\* ------------------------------------------------------------------------
\* State
\* ------------------------------------------------------------------------
VARIABLES
  op,           \* the method called on the MeteoParser
  fs,           \* the ISD files on disk, by name
  csvfile,      \* the station history file on disk (named "h")
  filenames,    \* parse_files: the argument
  end_date,     \* parse_meteo_stations: the argument
  stdout,       \* what print() wrote
  pfs_pc, pfs_i, result, pfs_exc,                 \* frame of parse_files
  pf_pc, pf_filename, f, pf_pos, readings, pf_ret, pf_exc,   \* frame of parse_file
  pms_pc, pms_filename, g, pms_pos, stations, pms_ret, pms_exc  \* frame of parse_meteo_stations

inputs == <<op, fs, csvfile, filenames, end_date>>
pfs_vars == <<pfs_pc, pfs_i, result, pfs_exc>>
pf_vars == <<pf_pc, pf_filename, f, pf_pos, readings, pf_ret, pf_exc>>
pms_vars == <<pms_pc, pms_filename, g, pms_pos, stations, pms_ret, pms_exc>>
vars == <<inputs, stdout, pfs_vars, pf_vars, pms_vars>>

Str(name) == [kind |-> "str", val |-> name]
List(names) == [kind |-> "list", val |-> names]

\* Python truth value of a str or a list
Truthy(arg) == IF arg.kind = "str" THEN arg.val # "" ELSE Len(arg.val) > 0

\* open(arg): a list is not a path; a missing or protected file is an OSError
Open(arg, disk) ==
  IF arg.kind # "str" THEN [ok |-> FALSE, exc |-> "TypeError"]
  ELSE IF arg.val \notin DOMAIN disk THEN [ok |-> FALSE, exc |-> "FileNotFoundError"]
  ELSE IF disk[arg.val].err # "" THEN [ok |-> FALSE, exc |-> disk[arg.val].err]
  ELSE [ok |-> TRUE]

\* "except Exception"
except_all(exc) == TRUE

\* no handler
except_none(exc) == FALSE

\* "except IOError" (db.py 129, 167): IOError is OSError
except_IOError(exc) == exc \in OSErrors

\* a file object that nobody closes
Leak(h) == h

\* leaving a "with open(...) as f" block, normally or by an exception
WithExit(h) == "closed"

Idle_pfs == pfs_pc = "idle" /\ pfs_i = 0 /\ result = << >> /\ pfs_exc = ""

Idle_pf ==
  /\ pf_pc = "idle" /\ pf_filename = Str("") /\ f = "none" /\ pf_pos = 0
  /\ readings = << >> /\ pf_ret = << >> /\ pf_exc = ""

Idle_pms ==
  /\ pms_pc = "idle" /\ pms_filename = Str("") /\ g = "none" /\ pms_pos = 0
  /\ stations = << >> /\ pms_ret = << >> /\ pms_exc = ""

NoCsv == [err |-> "FileNotFoundError", rows |-> << >>]

\* mp.parse_file(filename)
Init_parse_file ==
  /\ op = "parse_file"
  /\ \E file \in Files : fs = [n \in Names |-> IF n = "a" THEN file ELSE Unreadable]
  /\ csvfile = NoCsv /\ filenames = << >> /\ end_date = <<2016, 12, 1, 0, 0>>
  /\ Idle_pfs /\ Idle_pms
  /\ pf_pc = "entry" /\ pf_filename \in {Str(""), Str("a")} /\ f = "none" /\ pf_pos = 0
  /\ readings = << >> /\ pf_ret = << >> /\ pf_exc = ""

\* mp.parse_files(filenames)
Init_parse_files ==
  /\ op = "parse_files"
  /\ fs \in [Names -> BatchFiles]
  /\ filenames \in SeqsUpTo(Names, MaxFiles)
  /\ csvfile = NoCsv /\ end_date = <<2016, 12, 1, 0, 0>>
  /\ pfs_pc = "loop" /\ pfs_i = 0 /\ result = << >> /\ pfs_exc = ""
  /\ Idle_pf /\ Idle_pms

\* mp.parse_meteo_stations(filename, end_date)
Init_parse_meteo_stations ==
  /\ op = "parse_meteo_stations"
  /\ fs = [n \in Names |-> Unreadable] /\ filenames = << >>
  /\ csvfile \in CsvFiles
  /\ end_date \in Cutoffs
  /\ Idle_pfs /\ Idle_pf
  /\ pms_pc = "entry" /\ pms_filename \in {Str(""), Str("h")} /\ g = "none" /\ pms_pos = 0
  /\ stations = << >> /\ pms_ret = << >> /\ pms_exc = ""

\* the module-level script (db.py 278-285): parse_file on the data file, then
\* parse_meteo_stations on the history file with datetime(2016, 12, 1)
Init_script ==
  /\ op = "script"
  /\ \E file \in BatchFiles : fs = [n \in Names |-> IF n = "a" THEN file ELSE Unreadable]
  /\ \E c \in CsvFiles : Len(c.rows) <= 1 /\ csvfile = c
  /\ filenames = << >> /\ end_date = <<2016, 12, 1, 0, 0>>
  /\ Idle_pfs /\ Idle_pms
  /\ pf_pc = "entry" /\ pf_filename = Str("a") /\ f = "none" /\ pf_pos = 0
  /\ readings = << >> /\ pf_ret = << >> /\ pf_exc = ""

Init ==
  /\ stdout = << >>
  /\ \/ Init_parse_file
     \/ Init_parse_files
     \/ Init_parse_meteo_stations
     \/ Init_script

\* ------------------------------------------------------------------------
\* parse_file (db.py 95-133)
\* ------------------------------------------------------------------------
\* db.py 98-101
pf_Entry ==
  /\ pf_pc = "entry"
  /\ readings' = << >>
  /\ IF ~Truthy(pf_filename)
     THEN pf_pc' = "returned" /\ pf_ret' = << >>
     ELSE pf_pc' = "open" /\ pf_ret' = pf_ret
  /\ UNCHANGED <<inputs, stdout, pfs_vars, pms_vars, pf_filename, f, pf_pos, pf_exc>>

\* db.py 102-103 and the handler 129-131
pf_Open ==
  /\ pf_pc = "open"
  /\ LET o == Open(pf_filename, fs)
     IN  IF o.ok
         THEN /\ f' = "open" /\ pf_pos' = 0 /\ pf_pc' = "loop"
              /\ UNCHANGED <<stdout, pf_ret, pf_exc>>
         ELSE IF except_IOError(o.exc)
         THEN /\ stdout' = Append(stdout, <<"Cannot open file", pf_filename.val>>)
              /\ pf_ret' = << >> /\ pf_pc' = "returned"
              /\ UNCHANGED <<f, pf_pos, pf_exc>>
         ELSE /\ pf_pc' = "raised" /\ pf_exc' = o.exc
              /\ UNCHANGED <<stdout, f, pf_pos, pf_ret>>
  /\ UNCHANGED <<inputs, pfs_vars, pms_vars, pf_filename, readings>>

\* db.py 104-127: one iteration of "for line in f"
pf_Line ==
  /\ pf_pc = "loop"
  /\ pf_pos < Len(fs[pf_filename.val].lines)
  /\ LET line == fs[pf_filename.val].lines[pf_pos + 1]
     IN  IF ~MandatoryMatches(line)
         THEN /\ pf_pos' = pf_pos + 1
              /\ UNCHANGED <<stdout, pf_pc, f, readings, pf_ret, pf_exc>>
         ELSE LET o == LineOutcome(line)
              IN  IF o.ok
                  THEN /\ readings' = Append(readings, o.reading)
                       /\ pf_pos' = pf_pos + 1
                       /\ UNCHANGED <<stdout, pf_pc, f, pf_ret, pf_exc>>
                  ELSE /\ f' = WithExit(f)
                       /\ IF except_IOError(o.exc)
                          THEN /\ stdout' = Append(stdout, <<"Cannot open file", pf_filename.val>>)
                               /\ pf_ret' = << >> /\ pf_pc' = "returned"
                               /\ UNCHANGED pf_exc
                          ELSE /\ pf_pc' = "raised" /\ pf_exc' = o.exc
                               /\ UNCHANGED <<stdout, pf_ret>>
                       /\ UNCHANGED <<pf_pos, readings>>
  /\ UNCHANGED <<inputs, pfs_vars, pms_vars, pf_filename>>

\* db.py 104, 133: the file is exhausted, the with block ends, return readings
pf_EOF ==
  /\ pf_pc = "loop"
  /\ pf_pos = Len(fs[pf_filename.val].lines)
  /\ f' = WithExit(f)
  /\ pf_ret' = readings
  /\ pf_pc' = "returned"
  /\ UNCHANGED <<inputs, stdout, pfs_vars, pms_vars, pf_filename, pf_pos, readings, pf_exc>>

\* ------------------------------------------------------------------------
\* parse_files (db.py 85-93)
\* ------------------------------------------------------------------------
\* db.py 88-89, 93: next iteration calls parse_file(filenames); after the last
\* one the dict is returned
pfs_Loop ==
  /\ pfs_pc = "loop"
  /\ IF pfs_i < Len(filenames)
     THEN /\ pfs_pc' = "call"
          /\ pf_pc' = "entry" /\ pf_filename' = List(filenames)
          /\ f' = "none" /\ pf_pos' = 0 /\ readings' = << >> /\ pf_ret' = << >>
          /\ pf_exc' = ""
     ELSE /\ pfs_pc' = "returned"
          /\ UNCHANGED pf_vars
  /\ UNCHANGED <<inputs, stdout, pms_vars, pfs_i, result, pfs_exc>>

\* db.py 89-91: parse_file came back.  An exception passes through; otherwise
\* readings[1] is the second MeteoReading of the list (IndexError when there is
\* none) and len() of a MeteoReading is a TypeError
pfs_Resume ==
  /\ pfs_pc = "call"
  /\ pf_pc \in {"returned", "raised"}
  /\ pfs_pc' = "raised"
  /\ pfs_exc' = IF pf_pc = "raised" THEN pf_exc
                ELSE IF Len(pf_ret) < 2 THEN "IndexError" ELSE "TypeError"
  /\ pf_pc' = "idle"
  /\ UNCHANGED <<inputs, stdout, pms_vars, pfs_i, result,
                 pf_filename, f, pf_pos, readings, pf_ret, pf_exc>>

\* ------------------------------------------------------------------------
\* parse_meteo_stations (db.py 135-171)
\* ------------------------------------------------------------------------
\* db.py 145-148
pms_Entry ==
  /\ pms_pc = "entry"
  /\ stations' = << >>
  /\ IF ~Truthy(pms_filename)
     THEN pms_pc' = "returned" /\ pms_ret' = << >>
     ELSE pms_pc' = "open" /\ pms_ret' = pms_ret
  /\ UNCHANGED <<inputs, stdout, pfs_vars, pf_vars, pms_filename, g, pms_pos, pms_exc>>

\* db.py 150-152 and the handler 167-169
pms_Open ==
  /\ pms_pc = "open"
  /\ LET o == Open(pms_filename, [n \in {"h"} |-> csvfile])
     IN  IF o.ok
         THEN /\ g' = "open" /\ pms_pos' = 0 /\ pms_pc' = "loop"
              /\ UNCHANGED <<stdout, pms_ret, pms_exc>>
         ELSE IF except_IOError(o.exc)
         THEN /\ stdout' = Append(stdout, <<"Cannot open file", pms_filename.val>>)
              /\ pms_ret' = << >> /\ pms_pc' = "returned"
              /\ UNCHANGED <<g, pms_pos, pms_exc>>
         ELSE /\ pms_pc' = "raised" /\ pms_exc' = o.exc
              /\ UNCHANGED <<stdout, g, pms_pos, pms_ret>>
  /\ UNCHANGED <<inputs, pfs_vars, pf_vars, pms_filename, stations>>

\* db.py 163: all four fields are non-empty
FieldsPresent(row) ==
  Len(row.LAT) # 0 /\ Len(row.LON) # 0 /\ Len(row.ELEV) # 0 /\ Len(row.USAF) # 0

\* db.py 154-166: the outcome of the loop body on one row
RowOutcome(row, cutoff) ==
  LET dt == strptime(row.END, date_format)
  IN  IF ~dt.ok THEN dt
      ELSE IF DtLess(dt.dt, cutoff) THEN [ok |-> TRUE, keep |-> FALSE]
      ELSE IF ~FieldsPresent(row) THEN [ok |-> TRUE, keep |-> FALSE]
      ELSE [ok |-> TRUE, keep |-> TRUE,
            station |-> MeteoStation(row.USAF, row.LON, row.LAT, row.ELEV)]

\* db.py 153-166: one iteration of "for row in station_reader"
pms_Row ==
  /\ pms_pc = "loop"
  /\ pms_pos < Len(csvfile.rows)
  /\ LET o == RowOutcome(csvfile.rows[pms_pos + 1], end_date)
     IN  IF o.ok
         THEN /\ stations' = IF o.keep THEN Append(stations, o.station) ELSE stations
              /\ pms_pos' = pms_pos + 1
              /\ UNCHANGED <<stdout, pms_pc, g, pms_ret, pms_exc>>
         ELSE /\ g' = WithExit(g)
              /\ IF except_IOError(o.exc)
                 THEN /\ stdout' = Append(stdout, <<"Cannot open file", pms_filename.val>>)
                      /\ pms_ret' = << >> /\ pms_pc' = "returned"
                      /\ UNCHANGED pms_exc
                 ELSE /\ pms_pc' = "raised" /\ pms_exc' = o.exc
                      /\ UNCHANGED <<stdout, pms_ret>>
              /\ UNCHANGED <<pms_pos, stations>>
  /\ UNCHANGED <<inputs, pfs_vars, pf_vars, pms_filename>>

\* db.py 153, 171: no more rows, the with block ends, return stations
pms_EOF ==
  /\ pms_pc = "loop"
  /\ pms_pos = Len(csvfile.rows)
  /\ g' = WithExit(g)
  /\ pms_ret' = stations
  /\ pms_pc' = "returned"
  /\ UNCHANGED <<inputs, stdout, pfs_vars, pf_vars, pms_filename, pms_pos, stations, pms_exc>>

\* db.py 284-285: the script's second call, made once the first has returned
script_Next ==
  /\ op = "script"
  /\ pf_pc = "returned"
  /\ pms_pc = "idle"
  /\ pms_pc' = "entry" /\ pms_filename' = Str("h")
  /\ g' = "none" /\ pms_pos' = 0 /\ stations' = << >> /\ pms_ret' = << >>
  /\ pms_exc' = ""
  /\ UNCHANGED <<inputs, stdout, pfs_vars, pf_vars>>

Next ==
  \/ script_Next
  \/ pf_Entry \/ pf_Open \/ pf_Line \/ pf_EOF
  \/ pfs_Loop \/ pfs_Resume
  \/ pms_Entry \/ pms_Open \/ pms_Row \/ pms_EOF

Spec == Init /\ [][Next]_vars

\* ========================================================================
\* Properties
\* ========================================================================
\* The mandatory grammar as the column table lays it out: field positions
\* 1-4, 5-10, 11-15, 16-23, 24-27, 28, 29-34, 35-41, 42-46, 47-51, 52-100,
\* 101-105
DigitsAt(line, a, b) == \A k \in a..b : line[k] \in Digit
SignedAt(line, a, b) == line[a] \in {"+", "-"} /\ DigitsAt(line, a + 1, b)
CharsAt(line, a, b) == \A k \in a..b : line[k] # NL

GrammarAt0(line) ==
  /\ Len(line) >= 105
  /\ DigitsAt(line, 1, 4) /\ CharsAt(line, 5, 10) /\ DigitsAt(line, 11, 15)
  /\ DigitsAt(line, 16, 23) /\ DigitsAt(line, 24, 27) /\ CharsAt(line, 28, 28)
  /\ SignedAt(line, 29, 34) /\ SignedAt(line, 35, 41) /\ CharsAt(line, 42, 46)
  /\ SignedAt(line, 47, 51) /\ CharsAt(line, 52, 100) /\ DigitsAt(line, 101, 105)

\* the date+time digits of a matching line form a calendar timestamp
ValidTimestamp(line) ==
  LET y  == ToInt(SubSeq(line, 16, 19))
      m  == ToInt(SubSeq(line, 20, 21))
      d  == ToInt(SubSeq(line, 22, 23))
      hh == ToInt(SubSeq(line, 24, 25))
      mm == ToInt(SubSeq(line, 26, 27))
  IN  /\ y >= 1 /\ m >= 1 /\ m <= 12
      /\ d >= 1 /\ d <= DaysInMonth(y, IF m >= 1 /\ m <= 12 THEN m ELSE 1)
      /\ hh <= 23 /\ mm <= 59

\* parse_file was called by the user on a file that opens
PF_Opened ==
  /\ op \in {"parse_file", "script"}
  /\ pf_filename = Str("a")
  /\ fs["a"].err = ""

PF_Lines == fs["a"].lines

PF_Done == pf_pc \in {"returned", "raised"}

\* indices of the lines among the first n that match the grammar
MatchIdx(lines, n) == { k \in 1..n : GrammarAt0(lines[k]) }

\* index of the n-th matching line
NthMatch(lines, n) ==
  CHOOSE k \in 1..Len(lines) :
    GrammarAt0(lines[k]) /\ Cardinality(MatchIdx(lines, k)) = n

\* what the caller of parse_file holds when the call is over
PF_Emitted == IF pf_pc = "returned" THEN pf_ret ELSE << >>

\* C1 as stated: once the single-file parse of an opened file is over, every
\* line matching the mandatory grammar has contributed exactly one reading to
\* the result and every other line none.
C1_AsStated ==
  (PF_Opened /\ PF_Done) =>
     Len(PF_Emitted) = Cardinality(MatchIdx(PF_Lines, Len(PF_Lines)))

\* C1 amended: while the parse runs and when it returns, the readings are
\* exactly one per matching line read so far, in file order, and none for a
\* non-matching line; the parse returns only after the last line; it raises
\* only on a matching line whose date+time is not a calendar timestamp.
C1_ReadingIffMatch ==
  PF_Opened =>
    /\ pf_pc \in {"loop", "returned"} =>
         /\ Len(readings) = Cardinality(MatchIdx(PF_Lines, pf_pos))
         /\ \A n \in 1..Len(readings) :
              LET line == PF_Lines[NthMatch(PF_Lines, n)]
              IN  /\ readings[n].station.id = SubSeq(line, 5, 10)
                  /\ readings[n].station.latitude = SubSeq(line, 29, 34)
                  /\ readings[n].station.longitude = SubSeq(line, 35, 41)
                  /\ readings[n].station.elevation = SubSeq(line, 47, 51)
                  /\ readings[n].date_time[3] = ToInt(SubSeq(line, 22, 23))
    /\ pf_pc = "returned" => pf_pos = Len(PF_Lines) /\ pf_ret = readings
    /\ pf_pc = "raised" =>
         /\ pf_exc = "ValueError"
         /\ GrammarAt0(PF_Lines[pf_pos + 1])
         /\ ~ValidTimestamp(PF_Lines[pf_pos + 1])

\* a returned parse of a file with a matching line, a blank line or a line one
\* character short of the mandatory width
C1_Witness ==
  /\ PF_Opened /\ pf_pc = "returned"
  /\ Len(pf_ret) = 1 /\ Len(PF_Lines) = 2
  /\ \E k \in 1..2 : Len(PF_Lines[k]) = 105 /\ ~GrammarAt0(PF_Lines[k])

\* C2: the pressure of every emitted reading is the supplemental pressure when
\* a supplemental section is found and is not "99999", and the mandatory
\* pressure field otherwise.
C2_PressureOverride ==
  (PF_Opened /\ pf_pc \in {"loop", "returned"}) =>
    \A n \in 1..Len(readings) :
      LET line == PF_Lines[NthMatch(PF_Lines, n)]
          mand == SubSeq(line, 101, 105)
          supp == parse_re_add_search(line)
      IN  readings[n].pressure =
            IF supp # None /\ supp # MISSING THEN supp ELSE mand

\* one file with a missing mandatory pressure overridden by a valid
\* supplemental one, and a missing mandatory pressure kept because the
\* supplemental one is missing too
C2_Witness ==
  /\ PF_Opened /\ pf_pc = "returned" /\ Len(pf_ret) = 2
  /\ \A k \in 1..2 : SubSeq(PF_Lines[k], 101, 105) = MISSING
  /\ parse_re_add_search(PF_Lines[1]) = P10132 /\ pf_ret[1].pressure = P10132
  /\ parse_re_add_search(PF_Lines[2]) = MISSING /\ pf_ret[2].pressure = MISSING

\* the supplemental occurrences of a line: an MA1 marker after an ADD, followed
\* by 6 characters and 5 digits
Occurrences(line) ==
  { j \in 1..Len(line) :
      /\ \E i \in 1..(j - 3) : SubSeq(line, i, i + 2) = ADD
      /\ TailAt(line, j) }

OccPressure(line, j) == SubSeq(line, j + 9, j + 13)

FirstOcc(line) == CHOOSE j \in Occurrences(line) : \A k \in Occurrences(line) : j <= k

LastOcc(line) == CHOOSE j \in Occurrences(line) : \A k \in Occurrences(line) : k <= j

Override(mand, supp) == IF supp # MISSING THEN supp ELSE mand

\* C10 as stated: with several supplemental occurrences on a line, the
\* pressure used for the override decision is the one after the first MA1.
C10_AsStated ==
  (PF_Opened /\ pf_pc \in {"loop", "returned"}) =>
    \A n \in 1..Len(readings) :
      LET line == PF_Lines[NthMatch(PF_Lines, n)]
      IN  Cardinality(Occurrences(line)) > 1 =>
            readings[n].pressure =
              Override(SubSeq(line, 101, 105), OccPressure(line, FirstOcc(line)))

\* C10 amended: with several supplemental occurrences on a line, the pressure
\* used for the override decision is the one after the last MA1 marker that is
\* followed by 6 characters and 5 digits, never an earlier one.
C10_LastOccurrence ==
  (PF_Opened /\ pf_pc \in {"loop", "returned"}) =>
    \A n \in 1..Len(readings) :
      LET line == PF_Lines[NthMatch(PF_Lines, n)]
      IN  Cardinality(Occurrences(line)) > 1 =>
            readings[n].pressure =
              Override(SubSeq(line, 101, 105), OccPressure(line, LastOcc(line)))

\* a reading emitted for a line with two occurrences carrying different valid
\* pressures: it has the pressure of the second
C10_Witness ==
  /\ PF_Opened /\ pf_pc = "returned" /\ Len(pf_ret) >= 1
  /\ LET line == PF_Lines[NthMatch(PF_Lines, 1)]
     IN  /\ Cardinality(Occurrences(line)) = 2
         /\ OccPressure(line, FirstOcc(line)) = P10132
         /\ OccPressure(line, LastOcc(line)) = P10200
         /\ pf_ret[1].pressure = P10200

\* parse_meteo_stations was called on a history file that opens
PMS_Opened == pms_filename = Str("h") /\ csvfile.err = ""

\* C6: when the file cannot be opened, parse_file and parse_meteo_stations
\* print the failure, return an empty sequence and do not raise.
C6_OpenFailure ==
  /\ (op \in {"parse_file", "script"} /\ pf_filename = Str("a") /\ fs["a"].err # ""
        /\ pf_pc \notin {"entry", "open"})
       => /\ pf_pc = "returned" /\ pf_ret = << >> /\ pf_exc = ""
          /\ Len(stdout) >= 1 /\ stdout[1] = <<"Cannot open file", "a">>
  /\ (pms_filename = Str("h") /\ csvfile.err # "" /\ pms_pc \notin {"idle", "entry", "open"})
       => /\ pms_pc = "returned" /\ pms_ret = << >> /\ pms_exc = ""
          /\ Len(stdout) >= 1 /\ stdout[Len(stdout)] = <<"Cannot open file", "h">>

\* the script after both of its calls failed to open their file
C6_Witness ==
  /\ op = "script" /\ fs["a"].err # "" /\ csvfile.err # ""
  /\ pf_pc = "returned" /\ pf_ret = << >>
  /\ pms_pc = "returned" /\ pms_ret = << >>
  /\ stdout = << <<"Cannot open file", "a">>, <<"Cannot open file", "h">> >>

\* C7: a line that matches the grammar but has no valid calendar timestamp is
\* never passed over: the parse does not read past it, does not return, and
\* ends by raising ValueError to its caller.
C7_BadTimestampSurfaces ==
  PF_Opened =>
    /\ \A k \in 1..pf_pos : GrammarAt0(PF_Lines[k]) => ValidTimestamp(PF_Lines[k])
    /\ (PF_Done /\ \E k \in 1..Len(PF_Lines) :
                     GrammarAt0(PF_Lines[k]) /\ ~ValidTimestamp(PF_Lines[k]))
         => pf_pc = "raised" /\ pf_exc = "ValueError"

\* a parse that emitted a reading and then met month 13
C7_Witness ==
  /\ PF_Opened /\ pf_pc = "raised" /\ pf_exc = "ValueError"
  /\ pf_pos = 1 /\ Len(readings) = 1
  /\ SubSeq(PF_Lines[2], 20, 21) = <<"1", "3">>

\* a datetime as a number of minutes that grows with the calendar order
Stamp(dt) == (((dt[1] * 12 + dt[2]) * 31 + dt[3]) * 24 + dt[4]) * 60 + dt[5]

\* the row qualifies: END on or after the cutoff and the four fields non-empty
Qualifies(row, cutoff) ==
  /\ Stamp(strptime(row.END, date_format).dt) >= Stamp(cutoff)
  /\ row.LAT # << >> /\ row.LON # << >> /\ row.ELEV # << >> /\ row.USAF # << >>

RECURSIVE Qualifying(_, _, _)
\* the stations of the qualifying rows among the first n, in file order
Qualifying(rows, n, cutoff) ==
  IF n = 0 THEN << >>
  ELSE LET r == rows[n]
       IN  Qualifying(rows, n - 1, cutoff)
             \o (IF Qualifies(r, cutoff)
                 THEN << [id |-> r.USAF, longitude |-> r.LON,
                          latitude |-> r.LAT, elevation |-> r.ELEV] >>
                 ELSE << >>)

C9_HandleReleased ==
  /\ pf_pc \in {"returned", "raised", "idle"} => f # "open"
  /\ pms_pc \in {"returned", "raised", "idle"} => g # "open"
  /\ pfs_pc \in {"returned", "raised"} => f # "open"

\* the script: parse_file returned and parse_meteo_stations raised on a row,
\* both files were opened and are closed
C9_Witness ==
  /\ op = "script"
  /\ pf_pc = "returned" /\ f = "closed"
  /\ pms_pc = "raised" /\ g = "closed"

\* ------------------------------------------------------------------------
\* parse_files as it is meant to behave
\* ------------------------------------------------------------------------
RECURSIVE ReadingsOf(_)
\* the readings of the well-formed lines of a file's lines
ReadingsOf(lines) ==
  IF Len(lines) = 0 THEN << >>
  ELSE LET line == lines[1]
       IN  (IF GrammarAt0(line) /\ ValidTimestamp(line)
            THEN <<LineOutcome(line).reading>> ELSE << >>)
           \o ReadingsOf(Tail(lines))

Yield(name) == IF fs[name].err # "" THEN << >> ELSE ReadingsOf(fs[name].lines)

PFS_Done == op = "parse_files" /\ pfs_pc \in {"returned", "raised"}

\* C3: when two files of the batch yield readings for the same station, the
\* mapping returned holds, under that station, the readings of the first
\* followed by those of the second.
C3_AppendOnCollision ==
  (/\ PFS_Done /\ Len(filenames) = 2
   /\ Yield(filenames[1]) # << >> /\ Yield(filenames[2]) # << >>
   /\ Yield(filenames[1])[1].station.id = Yield(filenames[2])[1].station.id)
  => /\ pfs_pc = "returned"
     /\ \E key \in DOMAIN result :
          result[key] = Yield(filenames[1]) \o Yield(filenames[2])

\* C4: on iteration i of the batch parse, parse_file is called with the i-th
\* filename alone.
C4_PerFileCall ==
  pfs_pc = "call" =>
    /\ pf_filename.kind = "str"
    /\ pf_filename.val = filenames[pfs_i + 1]

\* C5: the batch parse always returns, and what it returns holds the readings
\* of every well-formed line of every readable file.
C5_PartialResults ==
  PFS_Done =>
    /\ pfs_pc = "returned"
    /\ \A n \in 1..Len(filenames) :
         \A m \in 1..Len(Yield(filenames[n])) :
           \E key \in DOMAIN result :
             \E q \in 1..Len(result[key]) : result[key][q] = Yield(filenames[n])[m]

====
